---- MODULE Spec2Model ----
(***************************************************************************)
(* A model of ROW (src/buffer/out/Row.cpp): one line of a terminal text    *)
(* buffer.  The row keeps a packed code-unit buffer (_chars), a table of   *)
(* W+1 offsets into it (_indices), the recorded capacity of the buffer, a  *)
(* run-length-encoded attribute row (_attr) and three flags.               *)
(*                                                                         *)
(* Columns and offsets are 0-based as in the source; TLA+ sequences are    *)
(* 1-based, so column c of the table is indices[c + 1] and code unit p of  *)
(* the buffer is chars[p + 1].  Len(chars) is the REAL size of the buffer  *)
(* _chars refers to, which the program itself does not know: it only has   *)
(* _charsCapacity.  An access outside a buffer is undefined behaviour; the *)
(* model records it as res = "fault" and follows the run no further.       *)
(***************************************************************************)
EXTENDS Integers, Sequences, FiniteSets, TLC

\* ---------------------------------------------------------------- bounds
\* Row widths range over 1..MaxW.
MaxW == 2
\* The entry of a caller-supplied indices buffer that Resize leaves unwritten
\* holds whatever the caller's memory held: a value in 0..MaxGarbage.
MaxGarbage == 3
\* An edit is not offered when it would grow the chars buffer past MaxCap units.
MaxCap == 4
\* WriteCells is offered streams of 1..MaxCells cells.
MaxCells == 2
\* Row widths of the attribute machine range over 1..MaxAttrW.
MaxAttrW == 2
\* Row widths of the wide text machine range over 1..MaxWideW.
MaxWideW == 3

\* ------------------------------------------------------------- constants
UNICODE_SPACE == 32
DBCS_SENTINEL == 65535
UINT16_MAX == 65535
\* The content of a buffer cell nobody has written since it was allocated or
\* handed over: unknown, so not a value any code unit can be relied on to equal.
JUNK == UINT16_MAX + 1

Widths == 1..MaxW
\* Attribute values; an attribute is a hyperlink iff it is >= 2, and then its
\* hyperlink id is the value itself.
Attrs == {1, 2}
\* Glyphs handed to ReplaceCharacters: a blank, a one-unit glyph, a two-unit
\* glyph (base + combining mark) and the empty string.
LetterA == UNICODE_SPACE + 33
LetterB == UNICODE_SPACE + 34
Glyphs == {<<UNICODE_SPACE>>, <<LetterA>>, <<LetterA, LetterB>>, <<>>}

VARIABLES row, last
vars == <<row, last>>

\* ------------------------------------------------------ sequence helpers
Min(a, b) == IF a < b THEN a ELSE b
Max(a, b) == IF a > b THEN a ELSE b
Fill(n, v) == [i \in 1..n |-> v]
Iota(n, start) == [i \in 1..n |-> start + i - 1]
\* uint16_t arithmetic
U16(x) == (x + 65536) % 65536

\* _indices[c]
Idx(r, c) == r.indices[c + 1]

\* std::copy_n(src + from, n, dst + to) on trivially copyable code units: a
\* memmove; n <= 0 copies nothing.
CopyN(src, from, n, dst, to) ==
    [i \in 1..Len(dst) |->
        IF i - 1 >= to /\ i - 1 < to + n THEN src[i - to + from] ELSE dst[i]]
\* Whether copy_n stays inside both buffers.
CopyOK(src, from, n, dst, to) ==
    n <= 0 \/ (from >= 0 /\ from + n <= Len(src) /\ to >= 0 /\ to + n <= Len(dst))

\* The outcome of an operation that ran into undefined behaviour.
Fault(r) == [r EXCEPT !.res = "fault"]
\* The outcome of an operation that threw.
Throw(r) == [r EXCEPT !.res = "throw"]
\* The outcome of a new[] that failed, reached after the old buffer was given
\* up.
BadAllocAfterRelease(r) ==
    [r EXCEPT !.res = "bad_alloc", !.chars = Fill(Len(r.chars), JUNK)]

\* The outcome of a new[] that failed: std::bad_alloc leaves the operation.
BadAlloc(r) == [r EXCEPT !.res = "bad_alloc"]

\* The outcome of THROW_HR_IF(E_INVALIDARG, ...).
InvalidArg(r) == [r EXCEPT !.res = "E_INVALIDARG"]
Ok(r) == [r EXCEPT !.res = "ok"]

\* delete[] _chars: bookkeeping of whose buffer is freed.
DeleteChars(r) ==
    IF r.kind = "owned" THEN r
    ELSE [r EXCEPT !.freedCaller = TRUE]

\* ---------------------------------------------------------------- _reset
_reset(r) ==
    LET r1 == IF r.kind # "base"
              THEN [DeleteChars(r) EXCEPT
                        !.chars = Fill(r.baseSize, JUNK),
                        !.kind = "base",
                        !.cap = r.W]
              ELSE r
    IN  IF r.W > Len(r1.chars) THEN Fault(r1)
        ELSE [r1 EXCEPT
                !.chars = [i \in 1..Len(r1.chars) |->
                              IF i <= r.W THEN UNICODE_SPACE ELSE r1.chars[i]],
                !.indices = Iota(r.W + 1, 0)]

\* ------------------------------------------------------------ ROW::ROW
Construct(w, fill) ==
    _reset([W |-> w,
            chars |-> Fill(w, JUNK),
            indices |-> Fill(w + 1, JUNK),
            cap |-> w,
            kind |-> "base",
            baseSize |-> w,
            stale |-> FALSE,
            attr |-> <<[value |-> fill, length |-> w]>>,
            lineRendition |-> "SingleWidth",
            wrapForced |-> FALSE,
            doubleBytePadded |-> FALSE,
            freedCaller |-> FALSE,
            leaked |-> FALSE,
            oom |-> FALSE,
            alive |-> TRUE,
            res |-> "ok"])

\* ------------------------------------------------- ROW::ReplaceCharacters
\* for (; col != 0 && _indices[col - 1] == ch; --col) {}
RECURSIVE ScanLeftFrom(_, _, _)
ScanLeftFrom(r, col, ch) ==
    IF col # 0 /\ Idx(r, col - 1) = ch THEN ScanLeftFrom(r, col - 1, ch) ELSE col

\* while ((ch1 = _indices[++col3]) == ch1ref) {}: the column the scan stops
\* at, or W + 1 when it runs past the table's last entry, indices[W].
RECURSIVE ScanRightFrom(_, _, _)
ScanRightFrom(r, col3, ch1ref) ==
    LET n == col3 + 1
    IN  IF n > r.W THEN n
        ELSE IF Idx(r, n) = ch1ref THEN ScanRightFrom(r, n, ch1ref) ELSE n

\* for (it = &_indices[col3]; it != &_indices[_indicesCount + 1]; ++it) *it += diff;
ShiftIndices(r, col3, diff) ==
    [r EXCEPT !.indices = [i \in 1..Len(r.indices) |->
        IF i - 1 >= col3 THEN U16(r.indices[i] + diff) ELSE r.indices[i]]]

\* The old buffer when _resizeChars moves to a new one: freed iff the
\* recorded capacity differs from the width.
ReleaseOld(r) ==
    IF r.cap # r.W THEN DeleteChars(r)
    ELSE IF r.kind = "owned" THEN [r EXCEPT !.leaked = TRUE]
    ELSE r

_resizeChars(r, ch0, ch1, newCh1, col3) ==
    LET diff == newCh1 - ch1
        currentLength == Idx(r, r.W)
        newLength == currentLength + diff
        n == currentLength - ch1
    IN  IF newLength >= 0 /\ newLength <= r.cap
        THEN IF ~CopyOK(r.chars, ch1, n, r.chars, newCh1) THEN Fault(r)
             ELSE ShiftIndices(
                    [r EXCEPT !.chars = CopyN(r.chars, ch1, n, r.chars, newCh1)],
                    col3, diff)
        ELSE LET minCapacity == r.cap + (r.cap \div 2)
                 newCapacity == Max(newLength, minCapacity)
                 fresh == Fill(newCapacity, JUNK)
                 head == CopyN(r.chars, 0, ch0, fresh, 0)
             IN  \* a negative newLength is a huge size_t: gsl::narrow throws
                 IF newLength < 0 \/ newCapacity > UINT16_MAX THEN Throw(r)
                 \* new wchar_t[newCapacity] finds no memory
                 ELSE IF r.oom THEN BadAlloc(r)
                 ELSE IF ~CopyOK(r.chars, 0, ch0, fresh, 0)
                         \/ ~CopyOK(r.chars, ch1, n, head, newCh1) THEN Fault(r)
                 ELSE ShiftIndices(
                        [ReleaseOld(r) EXCEPT
                            !.chars = CopyN(r.chars, ch1, n, head, newCh1),
                            !.kind = "owned",
                            !.cap = newCapacity],
                        col3, diff)

\* Lines 327-350: blanks for [col0, col1), the glyph for [col1, col2), blanks
\* for [col2, col3), each written at the offset the table is given.
WriteGlyph(r, col0, col1, col2, col3, ch0, g) ==
    LET lead == col1 - col0
        gBeg == ch0 + lead
        gEnd == gBeg + Len(g)
        end  == gEnd + (col3 - col2)
    IN  IF end > Len(r.chars) THEN Fault(r)
        ELSE [r EXCEPT
            !.chars = [i \in 1..Len(r.chars) |->
                IF i - 1 >= ch0 /\ i - 1 < gBeg THEN UNICODE_SPACE
                ELSE IF i - 1 >= gBeg /\ i - 1 < gEnd THEN g[i - gBeg]
                ELSE IF i - 1 >= gEnd /\ i - 1 < end THEN UNICODE_SPACE
                ELSE r.chars[i]],
            !.indices = [i \in 1..Len(r.indices) |->
                IF i - 1 >= col0 /\ i - 1 < col1 THEN ch0 + (i - 1 - col0)
                ELSE IF i - 1 >= col1 /\ i - 1 < col2 THEN gBeg
                ELSE IF i - 1 >= col2 /\ i - 1 < col3 THEN gEnd + (i - 1 - col2)
                ELSE r.indices[i]]]

ReplaceCharacters(r, x, width, g) ==
    LET col1 == x
        col2 == x + width
    IN  IF col1 >= col2 \/ col2 > r.W \/ Len(g) = 0 THEN r
        ELSE
        LET ch0  == Idx(r, col1)
            col0 == ScanLeftFrom(r, col1, ch0)
            col3 == ScanRightFrom(r, col2 - 1, Idx(r, col2 - 1))
        IN  IF col3 > r.W THEN Fault(r)
            ELSE
            LET ch1 == Idx(r, col3)
                newCh1 == Len(g) + (col1 - col0) + (col3 - col2) + ch0
                r1 == IF newCh1 # ch1 THEN _resizeChars(r, ch0, ch1, newCh1, col3)
                      ELSE r
            IN  IF r1.res # "ok" THEN r1
                ELSE WriteGlyph(r1, col0, col1, col2, col3, ch0, g)

\* ROW::ClearCell
ClearCell(r, column) == ReplaceCharacters(r, column, 1, <<UNICODE_SPACE>>)

\* ROW::ClearColumn
ClearColumn(r, column) ==
    IF column >= r.W THEN InvalidArg(r) ELSE ClearCell(r, column)

\* ---------------------------------------------------------------- queries
\* What a query returns when it reads outside the table or the buffer.
OutOfBounds == <<JUNK>>

\* while (column <= _indicesCount && _indices[++column] == current) {}: the
\* column the scan stops at, or W + 1 when it reads past indices[W].
RECURSIVE GlyphEnd(_, _, _)
GlyphEnd(r, column, current) ==
    IF column <= r.W
    THEN LET n == column + 1
         IN  IF n > r.W THEN n
             ELSE IF Idx(r, n) = current THEN GlyphEnd(r, n, current) ELSE n
    ELSE column

\* ROW::GlyphAt
GlyphAt(r, column) ==
    LET c == Min(column, r.W - 1)
        current == Idx(r, c)
        e == GlyphEnd(r, c, current)
    IN  IF e > r.W THEN OutOfBounds
        ELSE LET len == Idx(r, e) - current
             IN  IF len < 0 \/ current + len > Len(r.chars) THEN OutOfBounds
                 ELSE SubSeq(r.chars, current + 1, current + len)

\* The number of columns of the glyph that starts at column c.
RECURSIVE SpanFrom(_, _, _)
SpanFrom(r, c, k) ==
    IF c + k <= r.W /\ Idx(r, c + k) = Idx(r, c) THEN SpanFrom(r, c, k + 1) ELSE k
GlyphSpan(r, c) == SpanFrom(r, c, 1)

\* ROW::DbcsAttrAt
DbcsAttrAt(r, column) ==
    LET c == Min(column, r.W - 1)
        idx == Idx(r, c)
    IN  IF c > 0 /\ Idx(r, c - 1) = idx THEN "Trailing"
        ELSE IF c < r.W /\ Idx(r, c + 1) = idx THEN "Leading"
        ELSE "Single"

\* ROW::GetText
GetText(r) ==
    IF Idx(r, r.W) > Len(r.chars) THEN OutOfBounds
    ELSE SubSeq(r.chars, 1, Idx(r, r.W))

\* ------------------------------------------- til::small_rle (attribute row)
\* attr is a sequence of runs [value, length].
RECURSIVE Total(_)
Total(a) == IF a = <<>> THEN 0 ELSE a[1].length + Total(Tail(a))

\* The attribute of every column, run by run.
RECURSIVE Expand(_)
Expand(a) ==
    IF a = <<>> THEN <<>> ELSE Fill(a[1].length, a[1].value) \o Expand(Tail(a))

\* The columns at which a run starts.
RECURSIVE StartsFrom(_, _)
StartsFrom(a, off) ==
    IF a = <<>> THEN {} ELSE {off} \cup StartsFrom(Tail(a), off + a[1].length)

\* The runs that cover vals with a run starting at each column of starts.
RECURSIVE BuildFrom(_, _, _)
BuildFrom(vals, starts, c) ==
    IF c >= Len(vals) THEN <<>>
    ELSE LET later == {s \in starts : s > c /\ s < Len(vals)}
             e == IF later = {} THEN Len(vals)
                  ELSE CHOOSE s \in later : \A t \in later : s <= t
         IN  <<[value |-> vals[c + 1], length |-> e - c]>> \o BuildFrom(vals, starts, e)

\* rle::replace(begin, end, value): [begin, end) becomes one run of value,
\* merged with an equal neighbour on either side.
RleReplace(a, b, e, v) ==
    IF b >= e THEN a
    ELSE LET old == Expand(a)
             vals == [i \in 1..Len(old) |-> IF i - 1 >= b /\ i - 1 < e THEN v ELSE old[i]]
             cut == (StartsFrom(a, 0) \ (b..e)) \cup {b, e}
             mergeL == IF b > 0 /\ old[b] = v THEN {b} ELSE {}
             mergeR == IF e < Len(old) /\ old[e + 1] = v THEN {e} ELSE {}
         IN  BuildFrom(vals, (cut \ mergeL) \ mergeR, 0)
\* rle::replace throws std::out_of_range unless begin <= end <= size.
RleRangeOK(a, b, e) == b >= 0 /\ b <= e /\ e <= Total(a)

\* rle::replace_values(old, new): run boundaries stay.
RleReplaceValues(a, old, new) ==
    [i \in 1..Len(a) |-> IF a[i].value = old THEN [a[i] EXCEPT !.value = new] ELSE a[i]]

\* rle::resize_trailing_extent(n): the last run grows, or runs are cut at n.
RleResizeTrailingExtent(a, n) ==
    IF n = 0 THEN <<>>
    ELSE IF n >= Total(a)
    THEN IF a = <<>> THEN <<[value |-> 1, length |-> n]>>
         ELSE [a EXCEPT ![Len(a)].length = @ + (n - Total(a))]
    ELSE BuildFrom(SubSeq(Expand(a), 1, n), StartsFrom(a, 0), 0)

\* ------------------------------------------------------------ ROW::Reset
Reset(r, Attr) ==
    LET r1 == _reset(r)
    IN  IF r1.res # "ok" THEN r1
        ELSE [r1 EXCEPT
                !.attr = <<[value |-> Attr, length |-> r.W]>>,
                !.lineRendition = "SingleWidth",
                !.wrapForced = FALSE,
                !.doubleBytePadded = FALSE]

\* ----------------------------------------------------------- ROW::Resize
\* Lines 201-210.
ColsStart(r, newWidth) == Min(r.W, newWidth)
CharsToCopy(r, newWidth) == Idx(r, ColsStart(r, newWidth))
ColsToCopy(r, newWidth) ==
    ScanLeftFrom(r, ColsStart(r, newWidth), CharsToCopy(r, newWidth))

\* Lines 230-233: the table written into the caller's new indices buffer,
\* whose cells hold prior (the caller's memory) until written.
ResizeIndices(r, newWidth, prior) ==
    LET colsToCopy == ColsToCopy(r, newWidth)
        charsToCopy == CharsToCopy(r, newWidth)
        trailingWhitespace == newWidth - colsToCopy
    IN  [i \in 1..(newWidth + 1) |->
            IF i - 1 < colsToCopy THEN r.indices[i]
            ELSE IF i - 1 < colsToCopy + trailingWhitespace
                 THEN U16(charsToCopy + (i - 1 - colsToCopy))
            ELSE prior]

\* The attribute row left as it is when the width changes.
ResizeAttrSkipped(a, newWidth) == a

\* Line 244.
ResizeAttr(a, newWidth) == RleResizeTrailingExtent(a, newWidth)

Resize(r, newWidth, prior) ==
    LET colsToCopy == ColsToCopy(r, newWidth)
        charsToCopy == CharsToCopy(r, newWidth)
        trailingWhitespace == newWidth - colsToCopy
        charsCapacity == U16(charsToCopy + trailingWhitespace)
        \* the caller's chars of newWidth cells, or new wchar_t[charsCapacity]
        target == IF charsCapacity > newWidth THEN Fill(charsCapacity, JUNK)
                  ELSE Fill(newWidth, JUNK)
        copied == CopyN(r.chars, 0, charsToCopy, target, 0)
        chars == [i \in 1..Len(target) |->
                    IF i - 1 >= charsToCopy /\ i - 1 < charsCapacity
                    THEN UNICODE_SPACE ELSE copied[i]]
        r1 == _reset(r)
    IN  \* new wchar_t[charsCapacity]() finds no memory
        IF charsCapacity > newWidth /\ r.oom THEN BadAlloc(r)
        ELSE IF ~CopyOK(r.chars, 0, charsToCopy, target, 0) THEN Fault(r)
        ELSE IF r1.res # "ok" THEN r1
        ELSE [r1 EXCEPT
                !.chars = chars,
                !.indices = ResizeIndices(r, newWidth, prior),
                !.kind = IF charsCapacity > newWidth THEN "owned" ELSE "caller",
                !.stale = TRUE,
                !.cap = charsCapacity,
                !.W = newWidth,
                !.attr = ResizeAttr(r.attr, newWidth)]

\* ------------------------------------------------- attribute operations
\* ROW::TransferAttributes
TransferAttributes(r, attr, newWidth) ==
    [r EXCEPT !.attr = RleResizeTrailingExtent(attr, newWidth)]

\* ROW::Replace
Replace(r, beginIndex, endIndex, newAttr) ==
    IF ~RleRangeOK(r.attr, beginIndex, endIndex) THEN Throw(r)
    ELSE [r EXCEPT !.attr = RleReplace(r.attr, beginIndex, endIndex, newAttr)]

\* ROW::SetAttrToEnd
SetAttrToEnd(r, beginIndex, attr) ==
    Replace(r, beginIndex, Total(r.attr), attr)

\* ROW::ReplaceAttrs
ReplaceAttrs(r, toBeReplacedAttr, replaceWith) ==
    [r EXCEPT !.attr = RleReplaceValues(r.attr, toBeReplacedAttr, replaceWith)]

\* TextAttribute::IsHyperlink and GetHyperlinkId: an attribute value >= 2 is a
\* hyperlink, whose id is the value.
IsHyperlink(v) == v >= 2
GetHyperlinkId(v) == v

\* ROW::GetHyperlinks: the id of every run that is a hyperlink, in run order.
RECURSIVE HyperlinkIds(_)
HyperlinkIds(runs) ==
    IF runs = <<>> THEN <<>>
    ELSE (IF IsHyperlink(runs[1].value) THEN <<GetHyperlinkId(runs[1].value)>>
          ELSE <<>>) \o HyperlinkIds(Tail(runs))
GetHyperlinks(r) == HyperlinkIds(r.attr)

\* ROW::~ROW
Destroy(r) == [_reset(r) EXCEPT !.alive = FALSE]

\* ------------------------------------------------------- flags (Row.hpp)
SetWrapForced(r, wrap) == [r EXCEPT !.wrapForced = wrap]
SetDoubleBytePadded(r, padded) == [r EXCEPT !.doubleBytePadded = padded]
SetLineRendition(r, rendition) == [r EXCEPT !.lineRendition = rendition]
LineRenditions == {"SingleWidth", "DoubleWidth"}

\* ------------------------------------------------------- ROW::WriteCells
\* A cell of the iterator: [chars, dbcs, attr, behavior].  The iterator is a
\* sequence of cells and a position in it; it is exhausted past the last cell.
Cell(chars, dbcs, attr, behavior) ==
    [chars |-> chars, dbcs |-> dbcs, attr |-> attr, behavior |-> behavior]
\* std::nullopt for limitRight; wrap is "none" (std::nullopt), "true" or "false".
NoLimit == 0 - 1

\* Lines 144-149: a Leading cell on the final column is not written; the
\* column is cleared and the row marked as padded.
PadLastColumnNoFlag(r, currentIndex) == ClearCell(r, currentIndex)

PadLastColumn(r, currentIndex) ==
    LET q == ClearCell(r, currentIndex)
    IN  IF q.res = "ok" THEN SetDoubleBytePadded(q, TRUE) ELSE q

\* Lines 175-179: the wrap flag takes the value of wrap when the cell filled
\* the final column.
ApplyWrapAnywhere(q, wrap, fillingLastColumn) ==
    IF wrap # "none" /\ q.res = "ok" THEN SetWrapForced(q, wrap = "true") ELSE q

ApplyWrap(q, wrap, fillingLastColumn) ==
    IF wrap # "none" /\ fillingLastColumn /\ q.res = "ok"
    THEN SetWrapForced(q, wrap = "true") ELSE q

\* Lines 129-184: the text of one cell at column currentIndex.  adv is 1 when
\* the iterator is advanced.
WriteText(r, cell, currentIndex, finalColumnInRow, wrap) ==
    LET fillingLastColumn == currentIndex = finalColumnInRow
        wrapped(q) == ApplyWrap(q, wrap, fillingLastColumn)
    IN  IF cell.behavior = "StoredOnly" THEN [r |-> r, adv |-> 1]
        ELSE IF cell.dbcs = "Single"
        THEN [r |-> wrapped(ReplaceCharacters(r, currentIndex, 1, cell.chars)),
              adv |-> 1]
        ELSE IF cell.dbcs = "Leading"
        THEN IF fillingLastColumn
             THEN [r |-> wrapped(PadLastColumn(r, currentIndex)), adv |-> 0]
             ELSE [r |-> wrapped(ReplaceCharacters(r, currentIndex, 2, cell.chars)),
                   adv |-> 1]
        ELSE IF cell.chars = <<DBCS_SENTINEL>> /\ currentIndex # 0
        THEN LET col == currentIndex - 1
                 idx == Idx(r, col)
             IN  IF idx >= Len(r.chars) THEN [r |-> Fault(r), adv |-> 0]
                 ELSE [r |-> wrapped(ReplaceCharacters(r, col, 2,
                                        <<r.chars[idx + 1], DBCS_SENTINEL>>)),
                       adv |-> 1]
        ELSE [r |-> wrapped(r), adv |-> 1]

\* Lines 108-126: the colour of one cell.  s is the loop's state: the row r,
\* the iterator position it, currentIndex, currentColor, colorUses, colorStarts.
WriteColor(s, cell) ==
    IF cell.behavior = "Current" THEN s
    ELSE IF s.currentColor = cell.attr THEN [s EXCEPT !.colorUses = @ + 1]
    ELSE [s EXCEPT !.r = Replace(s.r, s.colorStarts, s.currentIndex, s.currentColor),
                   !.currentColor = cell.attr,
                   !.colorUses = 1,
                   !.colorStarts = s.currentIndex]

\* Line 106: while (it && currentIndex <= finalColumnInRow)
LoopGuardShort(s, cells, finalColumnInRow) ==
    s.it <= Len(cells) /\ s.currentIndex < finalColumnInRow

LoopGuard(s, cells, finalColumnInRow) ==
    s.it <= Len(cells) /\ s.currentIndex <= finalColumnInRow

\* Lines 106-194: the loop, then the commit of the final colour.
RECURSIVE WriteLoop(_, _, _, _)
WriteLoop(s, cells, finalColumnInRow, wrap) ==
    IF LoopGuard(s, cells, finalColumnInRow)
    THEN LET cell == cells[s.it]
             s1 == WriteColor(s, cell)
             t  == WriteText(s1.r, cell, s.currentIndex, finalColumnInRow, wrap)
         IN  IF s1.r.res # "ok" THEN s1
             ELSE IF t.r.res # "ok" THEN [s1 EXCEPT !.r = t.r]
             ELSE WriteLoop([s1 EXCEPT !.r = t.r,
                                       !.it = @ + t.adv,
                                       !.currentIndex = @ + 1],
                            cells, finalColumnInRow, wrap)
    ELSE IF s.colorUses # 0
         THEN [s EXCEPT !.r = Replace(s.r, s.colorStarts, s.currentIndex, s.currentColor)]
         ELSE s

\* Line 96: limitRight.value_or(0) >= size()
LimitUnchecked(r, limitRight) == FALSE

LimitInvalid(r, limitRight) ==
    (IF limitRight = NoLimit THEN 0 ELSE limitRight) >= r.W

\* The row after WriteCells and the position of the iterator it returns.
WriteCells(r, cells, index, wrap, limitRight) ==
    IF index >= r.W THEN [r |-> InvalidArg(r), it |-> 1]
    ELSE IF LimitInvalid(r, limitRight) THEN [r |-> InvalidArg(r), it |-> 1]
    ELSE LET s == WriteLoop([r |-> r, it |-> 1, currentIndex |-> index,
                             currentColor |-> cells[1].attr, colorUses |-> 0,
                             colorStarts |-> index],
                            cells,
                            IF limitRight = NoLimit THEN r.W - 1 ELSE limitRight,
                            wrap)
         IN  [r |-> s.r, it |-> s.it]


\* ------------------------------------------------------------ the machine
\* last: the operation that produced the current state, with ret the position
\* of the iterator WriteCells returned, the attribute given to Reset, or the
\* newWidth given to TransferAttributes.
Op(op, ret) == [op |-> op, ret |-> ret]

Usable == row.alive /\ row.res # "fault"
\* The row as an operation meets it when the next new[] will find no memory.
NoMemory(r) == [Ok(r) EXCEPT !.oom = TRUE]
\* The row once the operation is over.
Settled(r) == [r EXCEPT !.oom = FALSE]
Small(r) == Len(r.chars) <= MaxCap

\* The streams of 1..MaxCells cells over a set of cells.
Streams(cells) == UNION {[1..n -> cells] : n \in 1..MaxCells}

DoReset(attrs) ==
    \E a \in attrs :
        /\ Usable
        /\ row' = Reset(Ok(row), a)
        /\ last' = Op("Reset", a)

DoReplaceCharacters ==
    \E x \in 0..row.W, width \in 0..2, g \in Glyphs :
        LET out == ReplaceCharacters(Ok(row), x, width, g)
        IN  /\ Usable
            /\ Small(out)
            /\ row' = out
            /\ last' = Op("ReplaceCharacters", 0)

DoClearCell ==
    \E column \in 0..row.W :
        /\ Usable
        /\ row' = ClearCell(Ok(row), column)
        /\ last' = Op("ClearCell", 0)

DoClearColumn ==
    \E column \in 0..row.W :
        /\ Usable
        /\ row' = ClearColumn(Ok(row), column)
        /\ last' = Op("ClearColumn", 0)

DoWriteCells(cellSet, wraps, limits) ==
    \E cells \in Streams(cellSet), index \in 0..row.W, wrap \in wraps,
       limitRight \in limits :
        LET out == WriteCells(Ok(row), cells, index, wrap, limitRight)
        IN  /\ Usable
            /\ Small(out.r)
            /\ row' = out.r
            /\ last' = Op("WriteCells", out.it)

DoResize(widths, priors) ==
    \E newWidth \in widths, prior \in priors :
        LET out == Resize(Ok(row), newWidth, prior)
        IN  /\ Usable
            /\ Small(out)
            /\ row' = out
            /\ last' = Op("Resize", 0)

DoReplaceCharactersNoMemory ==
    \E x \in 0..row.W, width \in 0..2, g \in Glyphs :
        LET out == ReplaceCharacters(NoMemory(row), x, width, g)
        IN  /\ Usable
            /\ Small(out)
            /\ row' = Settled(out)
            /\ last' = Op("ReplaceCharacters", 0)

DoResizeNoMemory(widths, priors) ==
    \E newWidth \in widths, prior \in priors :
        LET out == Resize(NoMemory(row), newWidth, prior)
        IN  /\ Usable
            /\ Small(out)
            /\ row' = Settled(out)
            /\ last' = Op("Resize", 0)

\* The attribute rows a caller hands to TransferAttributes: one or two runs.
SourceAttrs ==
    {<<[value |-> a, length |-> n]>> : a \in Attrs, n \in 1..MaxAttrW}
    \cup {<<[value |-> 1, length |-> n]>> \o <<[value |-> 2, length |-> m]>> :
            n \in 1..2, m \in 1..2}

DoTransferAttributes ==
    \E attr \in SourceAttrs, newWidth \in 1..MaxAttrW :
        /\ Usable
        /\ row' = TransferAttributes(Ok(row), attr, newWidth)
        /\ last' = Op("TransferAttributes", newWidth)

DoReplace ==
    \E b \in 0..row.W, e \in 0..row.W, a \in Attrs :
        /\ Usable
        /\ row' = Replace(Ok(row), b, e, a)
        /\ last' = Op("Replace", 0)

DoSetAttrToEnd ==
    \E b \in 0..row.W, a \in Attrs :
        /\ Usable
        /\ row' = SetAttrToEnd(Ok(row), b, a)
        /\ last' = Op("SetAttrToEnd", 0)

DoReplaceAttrs ==
    \E old \in Attrs, new \in Attrs :
        /\ Usable
        /\ row' = ReplaceAttrs(Ok(row), old, new)
        /\ last' = Op("ReplaceAttrs", 0)

DoGetHyperlinks ==
    /\ Usable
    /\ row' = Ok(row)
    /\ last' = Op("GetHyperlinks", GetHyperlinks(row))

DoSetFlags ==
    \E wrap \in BOOLEAN, padded \in BOOLEAN, rendition \in LineRenditions :
        /\ Usable
        /\ row' = SetLineRendition(
                    SetDoubleBytePadded(SetWrapForced(Ok(row), wrap), padded), rendition)
        /\ last' = Op("SetFlags", 0)

DoDestroy ==
    /\ Usable
    /\ row' = Destroy(Ok(row))
    /\ last' = Op("Destroy", 0)

\* The text machine: a row of width 1..MaxW under the operations that touch
\* its text and its buffers.
TextCells ==
    {Cell(<<LetterA>>, "Single", 1, "Normal"),
     Cell(<<LetterA>>, "Leading", 1, "Normal"),
     Cell(<<DBCS_SENTINEL>>, "Trailing", 1, "Normal")}

Init ==
    \E w \in Widths, fill \in {1} :
        /\ row = Construct(w, fill)
        /\ last = Op("Construct", 0)

Next ==
    \/ DoReset({1})
    \/ DoReplaceCharacters
    \/ DoClearCell
    \/ DoClearColumn
    \/ DoWriteCells(TextCells, {"none"}, {NoLimit})
    \/ DoResize(Widths, 0..MaxGarbage)
    \/ DoDestroy

Spec == Init /\ [][Next]_vars

\* The attribute machine: a row of width 1..MaxAttrW whose text stays blank,
\* under the operations that touch its attribute row and its flags.
AttrCells ==
    {Cell(<<UNICODE_SPACE>>, "Single", 1, "Normal"),
     Cell(<<UNICODE_SPACE>>, "Single", 2, "Normal"),
     Cell(<<UNICODE_SPACE>>, "Single", 2, "Current")}

InitAttr ==
    \E w \in 1..MaxAttrW, fill \in Attrs :
        /\ row = Construct(w, fill)
        /\ last = Op("Construct", 0)

NextAttr ==
    \/ DoReset(Attrs)
    \/ DoWriteCells(AttrCells, {"none"}, {NoLimit})
    \/ DoResize(1..MaxAttrW, {0})
    \/ DoTransferAttributes
    \/ DoReplace
    \/ DoSetAttrToEnd
    \/ DoReplaceAttrs

SpecAttr == InitAttr /\ [][NextAttr]_vars

\* The wide text machine: a row of width 1..MaxWideW under ReplaceCharacters,
\* Reset and Resize into zero-filled caller memory.
InitWide ==
    \E w \in 1..MaxWideW :
        /\ row = Construct(w, 1)
        /\ last = Op("Construct", 0)

NextWide ==
    \/ DoReset({1})
    \/ DoReplaceCharacters
    \/ DoResize(1..MaxWideW, {0})

SpecWide == InitWide /\ [][NextWide]_vars

\* The write machine: a row of width 1..MaxW under WriteCells with every kind
\* of cell and right limit, among Reset, ClearColumn and Resize.
WriteCellSet ==
    {Cell(<<LetterA>>, "Single", 1, "Normal"),
     Cell(<<LetterB>>, "Leading", 1, "Normal"),
     Cell(<<LetterB>>, "Leading", 1, "StoredOnly"),
     Cell(<<DBCS_SENTINEL>>, "Trailing", 1, "Normal")}
WriteLimits == {NoLimit} \cup (0..MaxW)

InitWrite ==
    \E w \in Widths :
        /\ row = Construct(w, 1)
        /\ last = Op("Construct", 0)

NextWrite ==
    \/ DoReset({1})
    \/ DoClearColumn
    \/ DoWriteCells(WriteCellSet, {"none"}, WriteLimits)
    \/ DoResize(Widths, {0, 1})

SpecWrite == InitWrite /\ [][NextWrite]_vars

\* The wrap machine: a row of width 1..MaxW under WriteCells with every value
\* of wrap, for cells with text and cells that only store a colour.
WrapCellSet ==
    {Cell(<<LetterA>>, "Single", 1, "Normal"),
     Cell(<<LetterA>>, "Single", 1, "StoredOnly"),
     Cell(<<LetterB>>, "Leading", 1, "Normal")}
WriteWraps == {"none", "true", "false"}

NextWrap ==
    \/ DoReset({1})
    \/ DoWriteCells(WrapCellSet, WriteWraps, WriteLimits)
    \/ DoResize(Widths, {0})

SpecWrap == InitWrite /\ [][NextWrap]_vars

\* The hyperlink machine: a row of width 1..MaxWideW whose attribute row is
\* edited and whose hyperlinks are asked for.
InitLinks ==
    \E w \in 1..MaxWideW, fill \in Attrs :
        /\ row = Construct(w, fill)
        /\ last = Op("Construct", 0)

NextLinks ==
    \/ DoReset(Attrs)
    \/ DoReplace
    \/ DoSetAttrToEnd
    \/ DoReplaceAttrs
    \/ DoGetHyperlinks

SpecLinks == InitLinks /\ [][NextLinks]_vars

\* The allocation machine: a row of width 1..MaxW under ReplaceCharacters and
\* Resize, each with memory and without.
NextAlloc ==
    \/ DoReset({1})
    \/ DoReplaceCharacters
    \/ DoReplaceCharactersNoMemory
    \/ DoResize(Widths, {0})
    \/ DoResizeNoMemory(Widths, {0})

SpecAlloc == InitWrite /\ [][NextAlloc]_vars

\* ================================================================ claims
Cols(r) == 0..(r.W - 1)
NonEmptyGlyphs == Glyphs \ {<<>>}
\* The first column of the glyph that column c belongs to.
GlyphStart(r, c) == ScanLeftFrom(r, c, Idx(r, c))
\* Column c is a single-column glyph made of the one code unit U+0020.
BlankCell(r, c) ==
    /\ GlyphAt(r, c) = <<UNICODE_SPACE>>
    /\ GlyphStart(r, c) = c
    /\ GlyphEnd(r, c, Idx(r, c)) = c + 1
\* Columns [x, x + width) are exactly one glyph, whose code units are g.
OneGlyph(r, x, width, g) ==
    /\ GlyphStart(r, x) = x
    /\ GlyphEnd(r, x, Idx(r, x)) = x + width
    /\ GlyphAt(r, x) = g

\* C1: after any sequence of Reset, ReplaceCharacters, ClearCell, WriteCells
\* and Resize, indices[c] <= indices[c+1] for every column c in [0, W),
\* the last column against the past-the-end entry indices[W] included.
C1_IndicesMonotonic ==
    \A c \in Cols(row) : Idx(row, c) <= Idx(row, c + 1)

\* C2: in every reachable state every glyph has at least one code unit: the
\* forward scan from any column stops at or before entry W, on a strictly
\* greater offset; in particular indices[W] > indices[W-1].
C2_GlyphNonEmpty ==
    \A c \in Cols(row) :
        LET e == GlyphEnd(row, c, Idx(row, c))
        IN  e <= row.W /\ Idx(row, e) > Idx(row, c)

\* C3: after ReplaceCharacters(col, width, g) with non-empty g and
\* col + width <= W, columns [col, col + width) are exactly one glyph whose
\* code units are g, and every other column of a glyph that overlapped that
\* range is a single-column blank.
C3_GlyphAtomicity ==
    [][\A x \in Cols(row), width \in 1..2, g \in NonEmptyGlyphs :
        (/\ last'.op = "ReplaceCharacters"
         /\ x + width <= row.W
         /\ row' = ReplaceCharacters(Ok(row), x, width, g))
        => /\ OneGlyph(row', x, width, g)
           /\ \A c \in Cols(row) \ (x..(x + width - 1)) :
                (\E k \in x..(x + width - 1) : Idx(row, c) = Idx(row, k))
                => BlankCell(row', c)]_vars

\* C4: ReplaceCharacters(col, width, g) leaves every glyph outside the
\* expanded region [col0, col3) as it was: same columns, same code units,
\* whichever way the tail of chars is moved.
C4_FrameOutsideRegion ==
    [][\A x \in Cols(row), width \in 1..2, g \in NonEmptyGlyphs :
        (/\ last'.op = "ReplaceCharacters"
         /\ x + width <= row.W
         /\ row' = ReplaceCharacters(Ok(row), x, width, g))
        => LET col0 == GlyphStart(row, x)
               col3 == ScanRightFrom(row, x + width - 1, Idx(row, x + width - 1))
           IN  \A c \in Cols(row) \ (col0..(col3 - 1)) :
                /\ GlyphAt(row', c) = GlyphAt(row, c)
                /\ GlyphStart(row', c) = GlyphStart(row, c)
                /\ GlyphEnd(row', c, Idx(row', c)) = GlyphEnd(row, c, Idx(row, c))]_vars

\* C5: after Reset(a) in any reachable state every column is the single code
\* unit U+0020, indices[c] = c for c in [0, W], attr is the one run (a, W),
\* and lineRendition = SingleWidth, wrapForced = doubleBytePadded = false.
C5_ResetBlank ==
    last.op = "Reset" =>
        /\ \A c \in Cols(row) : GlyphAt(row, c) = <<UNICODE_SPACE>>
        /\ row.indices = Iota(row.W + 1, 0)
        /\ row.attr = <<[value |-> last.ret, length |-> row.W]>>
        /\ row.lineRendition = "SingleWidth"
        /\ ~row.wrapForced
        /\ ~row.doubleBytePadded

\* The fields of a row that a caller can tell apart: its text, table,
\* capacity, attributes and flags, and which backing chars refers to.
Observable(r) ==
    [W |-> r.W, chars |-> r.chars, indices |-> r.indices, cap |-> r.cap,
     kind |-> r.kind, stale |-> r.stale, attr |-> r.attr,
     lineRendition |-> r.lineRendition, wrapForced |-> r.wrapForced,
     doubleBytePadded |-> r.doubleBytePadded]

\* C6: Resize to W followed by Reset(a) gives the row that Reset(a) gives on
\* a freshly constructed row of width W: same chars, indices, attr, flags,
\* capacity W, and chars on the caller's baseline backing of that row.
C6_ResizeThenReset ==
    [][(last.op = "Resize" /\ row.res = "ok" /\ last'.op = "Reset")
        => Observable(row') = Observable(Reset(Construct(row.W, 1), last'.ret))]_vars

\* C7: the row only ever frees chars buffers it allocated itself; a backing
\* the caller supplied at construction or at Resize is never freed by it.
C7_FreesOnlyOwn == ~row.freedCaller

\* C8: after Resize(newChars, newIndices, newW) the table equals the old one
\* on [0, colsToCopy) and is charsToCopy + (c - colsToCopy) for every c in
\* [colsToCopy, newW], the past-the-end entry included, whatever newIndices
\* held before.
C8_ResizeIndices ==
    [][(last'.op = "Resize" /\ row'.res = "ok")
        => \A c \in 0..row'.W :
            Idx(row', c) =
                IF c < ColsToCopy(row, row'.W) THEN Idx(row, c)
                ELSE CharsToCopy(row, row'.W) + (c - ColsToCopy(row, row'.W))]_vars

\* C9: when Resize narrows to newW < W and a glyph occupies columns newW-1
\* and newW, the glyph is dropped: every column from colsToCopy to newW-1 is
\* its own single code unit U+0020 and the row's text is the text before the
\* cut glyph followed by those blanks.
C9_CutGlyphDropped ==
    [][(/\ last'.op = "Resize" /\ row'.res = "ok"
        /\ row'.W < row.W
        /\ Idx(row, row'.W - 1) = Idx(row, row'.W))
        => /\ \A c \in ColsToCopy(row, row'.W)..(row'.W - 1) : BlankCell(row', c)
           /\ GetText(row') =
                SubSeq(row.chars, 1, CharsToCopy(row, row'.W))
                \o Fill(row'.W - ColsToCopy(row, row'.W), UNICODE_SPACE)]_vars

C11_LengthWithinCapacity ==
    /\ Idx(row, row.W) <= row.cap
    /\ row.cap <= Len(row.chars)

\* The column WriteCells stops at: limitRight, or W - 1 when it is absent.
FinalColumn(r, limitRight) == IF limitRight = NoLimit THEN r.W - 1 ELSE limitRight
\* The number of columns a call processes: one per cell, from index up to the
\* final column.
Processed(r, cells, index, limitRight) ==
    Min(Len(cells), Max(0, FinalColumn(r, limitRight) - index + 1))
\* The last processed cell is a Leading cell with text on the final column.
LeadAtEdge(r, cells, index, limitRight) ==
    LET n == Processed(r, cells, index, limitRight)
    IN  /\ n >= 1
        /\ cells[n].dbcs = "Leading"
        /\ cells[n].behavior # "StoredOnly"
        /\ index + n - 1 = FinalColumn(r, limitRight)

\* C12: a WriteCells that returns has processed the columns index, index+1,
\* ... one cell each until the cells ran out or the column passed limitRight
\* (W - 1 by default), and returns the iterator advanced once per processed
\* column, except for a Leading cell with text on column limitRight.
C12_IteratorPosition ==
    Usable =>
    \A cells \in Streams(WriteCellSet), index \in 0..(row.W - 1),
       limitRight \in WriteLimits :
        LET out == WriteCells(Ok(row), cells, index, "none", limitRight)
            n == Processed(row, cells, index, limitRight)
        IN  out.r.res = "ok" =>
                out.it = 1 + n - (IF LeadAtEdge(row, cells, index, limitRight)
                                  THEN 1 ELSE 0)

\* A WriteCells has returned with the iterator past its first cell.
C12_Witness ==
    /\ last.op = "WriteCells"
    /\ row.res = "ok"
    /\ last.ret = 3
    /\ row.W = 2

\* The number of cells of a buffer that hold the code unit u.
CountOf(text, u) == Cardinality({i \in DOMAIN text : text[i] = u})

\* A wide glyph of a code unit that no cell written so far carries.
LetterC == UNICODE_SPACE + 35
EdgeCell == Cell(<<LetterC>>, "Leading", 1, "Normal")

\* C13: when a WriteCells that returns met a Leading cell with text on column
\* c = limitRight, column c is a single-column blank, doubleBytePadded is true
\* and the returned iterator still points at that Leading cell; and none of
\* the wide glyph's code units is anywhere in the row's buffer.
C13_LeadingAtEdgePadded ==
    Usable =>
    /\ \A cells \in Streams(WriteCellSet), index \in 0..(row.W - 1),
          limitRight \in WriteLimits :
        LET out == WriteCells(Ok(row), cells, index, "none", limitRight)
            n == Processed(row, cells, index, limitRight)
            c == FinalColumn(row, limitRight)
        IN  (out.r.res = "ok" /\ LeadAtEdge(row, cells, index, limitRight))
            => /\ BlankCell(out.r, c)
               /\ out.r.doubleBytePadded
               /\ out.it = n
               /\ cells[out.it].dbcs = "Leading"
    /\ \A first \in {<<>>} \cup {<<cell>> : cell \in WriteCellSet},
          index \in 0..(row.W - 1), limitRight \in WriteLimits :
        LET cells == first \o <<EdgeCell>>
            out == WriteCells(Ok(row), cells, index, "none", limitRight)
            c == FinalColumn(row, limitRight)
        IN  (/\ out.r.res = "ok"
             /\ LeadAtEdge(row, cells, index, limitRight)
             /\ Processed(row, cells, index, limitRight) = Len(cells))
            => /\ BlankCell(out.r, c)
               /\ out.r.doubleBytePadded
               /\ cells[out.it] = EdgeCell
               /\ CountOf(out.r.chars, LetterC) = 0

\* A WriteCells has written one cell and padded the last column for a
\* Leading cell it left unconsumed.
C13_Witness ==
    /\ last.op = "WriteCells"
    /\ row.res = "ok"
    /\ row.W = 2
    /\ last.ret = 2
    /\ row.doubleBytePadded
    /\ GlyphAt(row, 0) = <<LetterA>>
    /\ BlankCell(row, 1)

\* The call processed column limitRight (W - 1 by default).
ReachedFinal(r, cells, index, limitRight) ==
    LET n == Processed(r, cells, index, limitRight)
    IN  n >= 1 /\ index + n - 1 = FinalColumn(r, limitRight)

C15_AttrPerCell ==
    (Usable /\ Total(row.attr) = row.W) =>
    \A cells \in Streams(AttrCells), index \in 0..(row.W - 1) :
        LET out == WriteCells(Ok(row), cells, index, "none", NoLimit)
            n == Processed(row, cells, index, NoLimit)
            before == Expand(row.attr)
            after == Expand(out.r.attr)
        IN  out.r.res = "ok" =>
            /\ Len(after) = row.W
            /\ \A c \in Cols(row) :
                after[c + 1] =
                    IF c >= index /\ c < index + n
                       /\ cells[c - index + 1].behavior # "Current"
                    THEN cells[c - index + 1].attr
                    ELSE before[c + 1]

\* C16: WriteCells with index >= W or limitRight >= W, and ClearColumn with
\* column >= W, end in E_INVALIDARG and leave every field of the row as it
\* was before the call.
C16_InvalidArgNoChange ==
    Usable =>
    /\ \A cells \in Streams(WriteCellSet), index \in 0..(row.W + 1),
          limitRight \in WriteLimits :
            (index >= row.W \/ (limitRight # NoLimit /\ limitRight >= row.W))
            => WriteCells(Ok(row), cells, index, "none", limitRight).r
                    = [row EXCEPT !.res = "E_INVALIDARG"]
    /\ \A column \in row.W..(row.W + 1) :
            ClearColumn(Ok(row), column) = [row EXCEPT !.res = "E_INVALIDARG"]

\* A WriteCells on a row that holds text has been refused.
C16_Witness ==
    /\ last.op = "WriteCells"
    /\ row.res = "E_INVALIDARG"
    /\ GlyphAt(row, 0) = <<LetterA>>
    /\ row.doubleBytePadded

\* The text, table, capacity, width and attributes of two rows are the same.
SameRow(a, b) ==
    /\ a.chars = b.chars
    /\ a.indices = b.indices
    /\ a.cap = b.cap
    /\ a.W = b.W
    /\ a.attr = b.attr
    /\ a.kind = b.kind

\* C17: when the allocation of a larger chars buffer fails, or the new
\* capacity does not fit in 16 bits, in ReplaceCharacters, or the allocation
\* fails in Resize, the error leaves the operation and the row's chars,
\* indices, capacity, width and attr are what they were before the call.
C17_FailedAllocNoChange ==
    Usable =>
    /\ \A x \in 0..row.W, width \in 0..2, g \in Glyphs :
        /\ LET out == ReplaceCharacters(NoMemory(row), x, width, g)
           IN  out.res \in {"bad_alloc", "throw"} => SameRow(out, row)
        /\ LET out == ReplaceCharacters(Ok(row), x, width, g)
           IN  out.res = "throw" => SameRow(out, row)
    /\ \A newWidth \in Widths :
        LET out == Resize(NoMemory(row), newWidth, 0)
        IN  out.res = "bad_alloc" => SameRow(out, row)

\* A ReplaceCharacters that had to grow the buffer of a row with text has
\* found no memory.
C17_Witness ==
    /\ last.op = "ReplaceCharacters"
    /\ row.res = "bad_alloc"
    /\ GlyphAt(row, 0) = <<LetterA>>

\* C18: GetHyperlinks returns the distinct hyperlink ids of the row: the id of
\* every run that is a hyperlink is in the result, and no id is in it twice.
C18_HyperlinksDistinct ==
    last.op = "GetHyperlinks" =>
        /\ \A i \in DOMAIN row.attr :
            IsHyperlink(row.attr[i].value) =>
                \E k \in DOMAIN last.ret : last.ret[k] = GetHyperlinkId(row.attr[i].value)
        /\ \A j, k \in DOMAIN last.ret : j # k => last.ret[j] # last.ret[k]

\* Trailing cells: one that carries the sentinel U+FFFF and one that does not.
TrailingCells ==
    {Cell(<<DBCS_SENTINEL>>, "Trailing", 1, "Normal"),
     Cell(<<LetterA>>, "Trailing", 1, "Normal")}

\* C19: when a WriteCells that returns met a Trailing cell with text at
\* column c: if the cell is the sentinel U+FFFF and c > 0, columns c-1 and c
\* are one two-column glyph made of the code units the glyph at column c-1 had
\* before, followed by U+FFFF; otherwise the text and the table are unchanged;
\* either way the iterator has advanced by one.
C19_TrailingJoinsPrevious ==
    Usable =>
    \A cell \in TrailingCells, c \in Cols(row) :
        LET out == WriteCells(Ok(row), <<cell>>, c, "none", NoLimit)
        IN  out.r.res = "ok" =>
            /\ out.it = 2
            /\ IF cell.chars = <<DBCS_SENTINEL>> /\ c > 0
               THEN OneGlyph(out.r, c - 1, 2, GlyphAt(row, c - 1) \o <<DBCS_SENTINEL>>)
               ELSE out.r.chars = row.chars /\ out.r.indices = row.indices

\* C20: every chars buffer the row allocated is freed when it is replaced or
\* at the next Reset, Resize or destruction: none is dropped unfreed, and a
\* destroyed row holds none.
C20_OwnedFreedOnce ==
    /\ ~row.leaked
    /\ ~row.alive => row.kind # "owned"

====
